---- MODULE Spec2Model ----
(***************************************************************************)
(* Model of the ranked-choice-voting core (src/index.js): the approval     *)
(* calculator and the round-by-round tally engine.                         *)
(*                                                                         *)
(* One behaviour is one call tally(ballots, options, config): Init is the  *)
(* state on entry to the round loop (lines 195-204 executed), every        *)
(* iteration of the loop is one action, and leaving the loop through the   *)
(* round limit is one action.                                              *)
(***************************************************************************)
EXTENDS Integers, Sequences, FiniteSets

\* The state of a call of tally.
VARIABLES ballots, options, config, totalVotes, threshold,
          initialApprovalCounts, initialApprovalPercentages,
          activeOptions, currentBallotChoices, round, roundLogs, pc, result

\* The state of a call of validateVote or of formatBallots: the arguments
\* (vote, rawVotes, rawOptions), the verdict of validateVote, the position
\* of the loop of formatBallots in rawVotes, its cleanBallots, the warnings
\* it has printed, the result of an earlier call on the same options, and
\* the position in the code.
VARIABLES vote, rawVotes, rawOptions, validation, voteIndex, cleanBallots,
          warnings, previousBallots, fpc

tallyVars == <<ballots, options, config, totalVotes, threshold,
               initialApprovalCounts, initialApprovalPercentages,
               activeOptions, currentBallotChoices, round, roundLogs, pc, result>>

sanitizeVars == <<vote, rawVotes, rawOptions, validation, voteIndex,
                  cleanBallots, warnings, previousBallots, fpc>>

vars == <<tallyVars, sanitizeVars>>

\* The value of the variables of a function that is not being called.
Idle == "<idle>"

(***************************************************************************)
(* Bounds of the model.                                                    *)
(***************************************************************************)
MaxBallots == 2

(***************************************************************************)
(* JavaScript values.                                                      *)
(***************************************************************************)
\* null; option names are strings, so null is a string no option list uses.
NULL == "<null>"

\* ToBoolean on a value that is a string or null: null and "" are falsy.
Truthy(v) == v # NULL /\ v # ""

\* A JavaScript number: a finite rational n/d (d > 0), Infinity or NaN.
\* Percentages are count/total*100 with 0 <= count <= total, where the
\* double results compare exactly as the rationals do.
Num(n, d) == [k |-> "num", n |-> n, d |-> d]
Infinity == [k |-> "Infinity", n |-> 0, d |-> 1]
NaN == [k |-> "NaN", n |-> 0, d |-> 1]

\* a < b on numbers: false whenever an operand is NaN.
JsLess(a, b) ==
    /\ a.k = "num"
    /\ \/ b.k = "Infinity"
       \/ b.k = "num" /\ a.n * b.d < b.n * a.d

\* a === b on numbers: false whenever an operand is NaN.
JsStrictEq(a, b) ==
    \/ a.k = "Infinity" /\ b.k = "Infinity"
    \/ a.k = "num" /\ b.k = "num" /\ a.n * b.d = b.n * a.d

\* (count / total) * 100 for integers count >= 0, total >= 0.
JsPercent(count, total) ==
    IF total = 0
    THEN IF count = 0 THEN NaN ELSE Infinity
    ELSE Num(count * 100, total)

Range(s) == {s[i] : i \in 1..Len(s)}

(***************************************************************************)
(* Helper functions of src/index.js.                                       *)
(***************************************************************************)
RECURSIVE getActiveChoiceFrom(_, _, _)
getActiveChoiceFrom(ballot, active, i) ==
    IF i > Len(ballot) THEN NULL
    ELSE IF ballot[i] \in active THEN ballot[i]
    ELSE getActiveChoiceFrom(ballot, active, i + 1)

\* active is the set of members of the Set activeOptions.
getActiveChoice(ballot, active) == getActiveChoiceFrom(ballot, active, 1)

\* Mutant: the transfer goes to the ballot's last ranked active option.
RECURSIVE getLastActiveChoiceFrom(_, _, _)
getLastActiveChoiceFrom(ballot, active, i) ==
    IF i < 1 THEN NULL
    ELSE IF ballot[i] \in active THEN ballot[i]
    ELSE getLastActiveChoiceFrom(ballot, active, i - 1)

getLastActiveChoice(ballot, active) ==
    getLastActiveChoiceFrom(ballot, active, Len(ballot))

getTransferChoice(ballot, active) == getActiveChoice(ballot, active)

(***************************************************************************)
(* calculateApproval.                                                      *)
(***************************************************************************)
ApprovalCount(bs, option) ==
    Cardinality({i \in 1..Len(bs) : option \in Range(bs[i].approvals)})

calculateApproval(bs, opts) ==
    [counts |-> [o \in Range(opts) |-> ApprovalCount(bs, o)],
     percentages |-> [o \in Range(opts) |->
                        JsPercent(ApprovalCount(bs, o), Len(bs))]]

\* Mutant: the "+ 1" of line 196 dropped.
ThresholdHalf(total) == total \div 2

Threshold(total) == (total \div 2) + 1

(***************************************************************************)
(* One iteration of the round loop of tally, as functions of the loop      *)
(* state: active is the sequence of the members of activeOptions in        *)
(* insertion order, choices is currentBallotChoices.                       *)
(***************************************************************************)
\* Mutant: an option is credited with every ballot that ranks it.
RoundTallyOfRanked(active, choices) ==
    [o \in Range(active) |->
        Cardinality({i \in 1..Len(choices) : o \in Range(ballots[i].rankings)})]

\* Lines 225-233: every active option starts at 0, every truthy current
\* choice adds one to its option.
RoundTally(active, choices) ==
    [o \in Range(active) |->
        Cardinality({i \in 1..Len(choices) : Truthy(choices[i]) /\ choices[i] = o})]

\* Lines 239-251: the first option, in iteration order, at or above threshold.
RECURSIVE WinnerFrom(_, _, _, _)
WinnerFrom(active, tally, thr, i) ==
    IF i > Len(active) THEN NULL
    ELSE IF tally[active[i]] >= thr THEN active[i]
    ELSE WinnerFrom(active, tally, thr, i + 1)

HasWinner(active, tally, thr) == \E i \in 1..Len(active) : tally[active[i]] >= thr

RoundWinner(active, tally, thr) == WinnerFrom(active, tally, thr, 1)

\* Lines 253-258.
RECURSIVE MinVotesFrom(_, _, _, _)
MinVotesFrom(active, tally, i, minVotes) ==
    IF i > Len(active) THEN minVotes
    ELSE MinVotesFrom(active, tally, i + 1,
            IF JsLess(Num(tally[active[i]], 1), minVotes)
            THEN Num(tally[active[i]], 1) ELSE minVotes)

MinVotes(active, tally) == MinVotesFrom(active, tally, 1, Infinity)

\* Lines 260-265.
MinTied(active, tally) ==
    LET minVotes == MinVotes(active, tally)
    IN  SelectSeq(active, LAMBDA o : JsStrictEq(Num(tally[o], 1), minVotes))

\* Lines 268-274.
RECURSIVE MinApprovalFrom(_, _, _, _)
MinApprovalFrom(tied, pct, i, minPct) ==
    IF i > Len(tied) THEN minPct
    ELSE MinApprovalFrom(tied, pct, i + 1,
            IF JsLess(pct[tied[i]], minPct) THEN pct[tied[i]] ELSE minPct)

MinApprovalPercentage(tied, pct) == MinApprovalFrom(tied, pct, 1, Infinity)

\* Mutant: the tied options with the highest approval percentage.
MostApproved(tied, pct) ==
    SelectSeq(tied, LAMBDA o : \A p \in Range(tied) : ~JsLess(pct[o], pct[p]))

\* Lines 276-281.
NewToEliminate(tied, pct) ==
    LET minApprovalPercentage == MinApprovalPercentage(tied, pct)
    IN  SelectSeq(tied, LAMBDA o : JsStrictEq(pct[o], minApprovalPercentage))

\* Mutant: the "length > 0" guard of line 283 dropped.
NarrowsUnguarded(newTied, tied) == Len(newTied) < Len(tied)

\* Line 283.
Narrows(newTied, tied) == Len(newTied) > 0 /\ Len(newTied) < Len(tied)

\* Mutant: the narrowing ignores config.tieBreaking.
ApprovalTieBreakAlways(tied, tieBreaking, pct) ==
    IF Len(tied) > 1 /\ Narrows(NewToEliminate(tied, pct), tied)
    THEN NewToEliminate(tied, pct)
    ELSE tied

\* Lines 267-286.
ApprovalTieBreak(tied, tieBreaking, pct) ==
    IF Len(tied) > 1 /\ tieBreaking = "approval"
    THEN IF Narrows(NewToEliminate(tied, pct), tied)
         THEN NewToEliminate(tied, pct)
         ELSE tied
    ELSE tied

\* Lines 260-286: toEliminate as it stands at line 288.
ToEliminate(active, tally, tieBreaking, pct) ==
    ApprovalTieBreak(MinTied(active, tally), tieBreaking, pct)

\* Mutant: line 288 compares with the length of the option list.
IsUnbreakableTieOfAll(elim, active) == Len(elim) = Len(options)

\* Line 288.
\* Mutant: any tie for elimination ends the tally.
IsUnbreakableTieOfSeveral(elim, active) == Len(elim) > 1

IsUnbreakableTie(elim, active) == Len(elim) = Cardinality(Range(active))

\* Mutant: only the first eliminated option leaves the active set.
RemoveFirstEliminated(active, elim) ==
    SelectSeq(active, LAMBDA o : elim = <<>> \/ o # elim[1])

\* Lines 303-307.
RemoveEliminated(active, elim) ==
    SelectSeq(active, LAMBDA o : o \notin Range(elim))

\* Line 314.
Transfers(choice, elim) == Truthy(choice) /\ choice \in Range(elim)

\* Lines 309-334: the new currentBallotChoices.
\* Mutant: a ballot whose choice was eliminated is dropped, not transferred.
NewBallotChoicesExhausted(bs, choices, elim, newActive) ==
    [i \in 1..Len(bs) |->
        IF Transfers(choices[i], elim) THEN NULL ELSE choices[i]]

NewBallotChoices(bs, choices, elim, newActive) ==
    [i \in 1..Len(bs) |->
        IF Transfers(choices[i], elim)
        THEN getTransferChoice(bs[i].rankings, Range(newActive))
        ELSE choices[i]]

\* Line 321.
TransferTarget(nextChoice) == IF Truthy(nextChoice) THEN nextChoice ELSE "exhausted"

\* Lines 314-326: transfers[from][to] counts the ballots moved from -> to;
\* only pairs with at least one ballot get an entry.
RoundTransfers(bs, choices, elim, newActive) ==
    LET moved == {i \in 1..Len(bs) : Transfers(choices[i], elim)}
        target(i) == TransferTarget(getTransferChoice(bs[i].rankings, Range(newActive)))
    IN  [from \in {choices[i] : i \in moved} |->
            [to \in {target(i) : i \in {j \in moved : choices[j] = from}} |->
                Cardinality({i \in moved : choices[i] = from /\ target(i) = to})]]

\* Mutant: the record carries the approval figures of the active options only.
RoundLogOfActive(r, tally, status, elim, transfers, counts, pct) ==
    [round |-> r, tally |-> tally, status |-> status, eliminated |-> elim,
     transfers |-> transfers,
     approvalRatings |-> [o \in DOMAIN tally |-> counts[o]],
     approvalPercentages |-> [o \in DOMAIN tally |-> pct[o]]]

\* Lines 208-223 and 235-237: the record of a round.
RoundLog(r, tally, status, elim, transfers, counts, pct) ==
    [round |-> r, tally |-> tally, status |-> status, eliminated |-> elim,
     transfers |-> transfers, approvalRatings |-> counts,
     approvalPercentages |-> pct]

NoError == [present |-> FALSE, maxRounds |-> 0]
\* Mutant: the message names the round counter, not the configured limit.
RoundLimitErrorOfRound(maxRounds) == [present |-> TRUE, maxRounds |-> maxRounds + 1]

\* `Tally exceeded max rounds (${config.maxRounds}).`
RoundLimitError(maxRounds) == [present |-> TRUE, maxRounds |-> maxRounds]

\* The returned object. Its fields options and rounds are the very objects
\* options and roundLogs, which the state holds already.
Result(winner, error) ==
    [winner |-> winner, totalVotes |-> totalVotes, threshold |-> threshold,
     error |-> error]

NoResult == [winner |-> NULL, totalVotes |-> 0, threshold |-> 0, error |-> NoError]

\* Mutant: off by one in the loop condition.
LoopStopsEarly(r, maxRounds) == r < maxRounds

\* Line 206: the loop condition.
LoopContinues(r, maxRounds) == r <= maxRounds

(***************************************************************************)
(* Inputs: the elections explored.                                         *)
(***************************************************************************)
\* Option lists; "" is a string like any other and validateVote accepts it.
OptionLists ==
    {<<>>, <<"">>, <<"A">>, <<"", "A">>, <<"B", "A">>, <<"A", "B", "C">>}

TieBreakings == {"approval", "eliminate_all"}

\* The longest option list explored.
MaxOptionCount ==
    CHOOSE n \in {Len(l) : l \in OptionLists} : \A l \in OptionLists : Len(l) <= n

\* maxRounds below, at and (for the shorter lists) above the number of options.
Configs == [tieBreaking : TieBreakings, maxRounds : 1..MaxOptionCount]

\* Rankings of a clean ballot: sequences of distinct members of the options.
Rankings(opts) ==
    UNION {{r \in [1..n -> Range(opts)] :
                \A i, j \in 1..n : i # j => r[i] # r[j]} : n \in 0..Len(opts)}

IndexOf(opts, o) == CHOOSE i \in 1..Len(opts) : opts[i] = o

RECURSIVE RankCode(_, _)
RankCode(opts, r) ==
    IF r = <<>> THEN 0
    ELSE IndexOf(opts, Head(r)) + (Len(opts) + 1) * RankCode(opts, Tail(r))

\* tally reads ballots only through sums over all of them (approval counts,
\* per-option tallies, transfer counts) and never relates a ballot's
\* approvals to its rankings, so ballot lists are explored up to the order
\* of the ballots: rankings in nondecreasing RankCode, and approvals given
\* by an approval count per option, ballot i approving o iff i <= cnt[o].
SortedRankings(opts, n) ==
    {q \in [1..n -> Rankings(opts)] :
        \A i \in 1..(n - 1) : RankCode(opts, q[i]) <= RankCode(opts, q[i + 1])}

CleanBallots(opts, n, r, cnt) ==
    [i \in 1..n |->
        [rankings |-> r[i], approvals |-> SelectSeq(opts, LAMBDA o : i <= cnt[o])]]

(***************************************************************************)
(* The state machine.                                                      *)
(***************************************************************************)
\* Lines 195-204, up to the first test of the loop condition, for the
\* arguments held by ballots, options and config.
TallyEntry ==
    /\ totalVotes = Len(ballots)
    /\ threshold = Threshold(Len(ballots))
    /\ LET approval == calculateApproval(ballots, options)
       IN  /\ initialApprovalCounts = approval.counts
           /\ initialApprovalPercentages = approval.percentages
    /\ activeOptions = options
    /\ currentBallotChoices =
          [i \in 1..Len(ballots) |-> getActiveChoice(ballots[i].rankings, Range(options))]
    /\ round = 1
    /\ roundLogs = <<>>
    /\ pc = "loop"
    /\ result = NoResult

\* No call of validateVote or formatBallots is under way.
SanitizeIdle ==
    /\ vote = Idle
    /\ rawVotes = Idle
    /\ rawOptions = Idle
    /\ validation = Idle
    /\ voteIndex = 0
    /\ cleanBallots = Idle
    /\ warnings = Idle
    /\ previousBallots = Idle
    /\ fpc = Idle

\* Lines 194-204: tally called on any of the elections explored.
Init ==
    /\ options \in OptionLists
    /\ \E n \in 0..MaxBallots :
          \E r \in SortedRankings(options, n), cnt \in [Range(options) -> 0..n] :
              ballots = CleanBallots(options, n, r, cnt)
    /\ config \in Configs
    /\ TallyEntry
    /\ SanitizeIdle

Inputs == <<ballots, options, config, totalVotes, threshold,
            initialApprovalCounts, initialApprovalPercentages>>

InRound == pc = "loop" /\ LoopContinues(round, config.maxRounds)

\* Lines 207-251: a round that finds a winner.
WinnerRound ==
    /\ InRound
    /\ LET tally == RoundTally(activeOptions, currentBallotChoices)
           log == RoundLog(round, tally, "Winner found", <<>>, <<>>,
                           initialApprovalCounts, initialApprovalPercentages)
       IN  /\ HasWinner(activeOptions, tally, threshold)
           /\ roundLogs' = Append(roundLogs, log)
           /\ result' = Result(RoundWinner(activeOptions, tally, threshold), NoError)
    /\ pc' = "done"
    /\ UNCHANGED <<sanitizeVars, Inputs, activeOptions, currentBallotChoices, round>>

\* Lines 207-299: a round that ends in an unbreakable tie.
TieRound ==
    /\ InRound
    /\ LET tally == RoundTally(activeOptions, currentBallotChoices)
           elim == ToEliminate(activeOptions, tally, config.tieBreaking,
                               initialApprovalPercentages)
           log == RoundLog(round, tally, "Unbreakable tie", elim, <<>>,
                           initialApprovalCounts, initialApprovalPercentages)
       IN  /\ ~HasWinner(activeOptions, tally, threshold)
           /\ IsUnbreakableTie(elim, activeOptions)
           /\ roundLogs' = Append(roundLogs, log)
           /\ result' = Result(NULL, NoError)
    /\ pc' = "done"
    /\ UNCHANGED <<sanitizeVars, Inputs, activeOptions, currentBallotChoices, round>>

\* Lines 207-335: a round that eliminates and transfers (round++ included).
EliminationRound ==
    /\ InRound
    /\ LET tally == RoundTally(activeOptions, currentBallotChoices)
           elim == ToEliminate(activeOptions, tally, config.tieBreaking,
                               initialApprovalPercentages)
           newActive == RemoveEliminated(activeOptions, elim)
       IN  /\ ~HasWinner(activeOptions, tally, threshold)
           /\ ~IsUnbreakableTie(elim, activeOptions)
           /\ activeOptions' = newActive
           /\ currentBallotChoices' =
                 NewBallotChoices(ballots, currentBallotChoices, elim, newActive)
           /\ roundLogs' = Append(roundLogs,
                 RoundLog(round, tally, "Elimination", elim,
                          RoundTransfers(ballots, currentBallotChoices, elim, newActive),
                          initialApprovalCounts, initialApprovalPercentages))
    /\ round' = round + 1
    /\ UNCHANGED <<sanitizeVars, Inputs, pc, result>>

\* Lines 338-345: the loop ran out of rounds.
RoundLimit ==
    /\ pc = "loop"
    /\ ~LoopContinues(round, config.maxRounds)
    /\ result' = Result(NULL, RoundLimitError(config.maxRounds))
    /\ pc' = "done"
    /\ UNCHANGED <<sanitizeVars, Inputs, activeOptions, currentBallotChoices, round, roundLogs>>

Next == WinnerRound \/ TieRound \/ EliminationRound \/ RoundLimit

Spec == Init /\ [][Next]_vars

(***************************************************************************)
(* Elections of five ballots over [A, B, C]: every ballot list made of the *)
(* rankings of the worked example of the documentation, or of none.        *)
(***************************************************************************)
ScenarioOptions == <<"A", "B", "C">>

ScenarioRankings ==
    << <<"A", "B", "C">>, <<"B", "A", "C">>, <<"A", "C", "B">>,
       <<"C", "B", "A">>, <<"B", "A", "C">> >>

ScenarioBallots ==
    [i \in 1..Len(ScenarioRankings) |->
        [rankings |-> ScenarioRankings[i], approvals |-> <<>>]]

InitScenario ==
    /\ options = ScenarioOptions
    /\ ballots \in [1..Len(ScenarioRankings) ->
                      [rankings : Range(ScenarioRankings) \cup {<<>>},
                       approvals : {<<>>}]]
    /\ config \in Configs
    /\ TallyEntry
    /\ SanitizeIdle

SpecScenario == InitScenario /\ [][Next]_vars

(***************************************************************************)
(* Raw JavaScript values, as validateVote and formatBallots may be handed  *)
(* them.  An entry of an array is a string or not; a field is undefined,   *)
(* null, another falsy value (0, "", false), an array, or another truthy   *)
(* value; a vote is one of these, an array or an object, of which only     *)
(* the properties rankings and approvals are read.                         *)
(***************************************************************************)
Str(s) == [str |-> TRUE, val |-> s]
NonStr(s) == [str |-> FALSE, val |-> s]

Undefined == [kind |-> "undefined", items |-> <<>>]
Null == [kind |-> "null", items |-> <<>>]
Falsy == [kind |-> "falsy", items |-> <<>>]
Other == [kind |-> "other", items |-> <<>>]
Array(items) == [kind |-> "array", items |-> items]

Object(rankings, approvals) ==
    [kind |-> "object", rankings |-> rankings, approvals |-> approvals]
\* A value that is not an object with properties of its own: reading
\* rankings or approvals from it gives undefined.
Plain(kind) == [kind |-> kind, rankings |-> Undefined, approvals |-> Undefined]

\* !v is false.
JsTruthy(v) == v.kind \in {"other", "array", "object"}
\* typeof v === 'object'.
TypeofObject(v) == v.kind \in {"null", "array", "object"}
IsArray(v) == v.kind = "array"

(***************************************************************************)
(* validateVote.                                                           *)
(***************************************************************************)
\* The error of a verdict is null or a message; a message that quotes the
\* offending choice keeps it beside the fixed text.
NullError == [message |-> NULL, choice |-> NULL]
Valid == [valid |-> TRUE, error |-> NullError]
Invalid(message, choice) ==
    [valid |-> FALSE, error |-> [message |-> message, choice |-> choice]]

\* Lines 66-79 and 97-110: the first entry, from position i on, that is not
\* a string or not in optionSet; 0 if there is none.
RECURSIVE FirstOffending(_, _, _)
FirstOffending(items, optionSet, i) ==
    IF i > Len(items) THEN 0
    ELSE IF ~items[i].str \/ items[i] \notin optionSet THEN i
    ELSE FirstOffending(items, optionSet, i + 1)

\* new Set(a).size !== a.length.
HasDuplicates(items) == Cardinality(Range(items)) # Len(items)

\* Mutant: the duplicate test of lines 81-87 comes before the loop.
RankingsVerdictDuplicatesFirst(items, optionSet) ==
    LET i == FirstOffending(items, optionSet, 1)
    IN  IF HasDuplicates(items)
        THEN Invalid("Duplicate found: rankings contain repeated options.", NULL)
        ELSE IF i = 0 THEN Valid
        ELSE IF ~items[i].str
        THEN Invalid("Invalid choice: rankings contain a non-string value.", NULL)
        ELSE Invalid("Invalid choice: is not one of the options.", items[i].val)

\* Lines 66-87.
RankingsVerdict(items, optionSet) ==
    LET i == FirstOffending(items, optionSet, 1)
    IN  IF i # 0 /\ ~items[i].str
        THEN Invalid("Invalid choice: rankings contain a non-string value.", NULL)
        ELSE IF i # 0
        THEN Invalid("Invalid choice: is not one of the options.", items[i].val)
        ELSE IF HasDuplicates(items)
        THEN Invalid("Duplicate found: rankings contain repeated options.", NULL)
        ELSE Valid

\* Lines 90-118.
ApprovalsVerdict(approvals, optionSet) ==
    LET i == FirstOffending(approvals.items, optionSet, 1)
    IN  IF ~JsTruthy(approvals) THEN Valid
        ELSE IF ~IsArray(approvals)
        THEN Invalid("Approvals must be an array.", NULL)
        ELSE IF i # 0 /\ ~approvals.items[i].str
        THEN Invalid("Invalid choice: approvals contain a non-string value.", NULL)
        ELSE IF i # 0
        THEN Invalid("Invalid approved choice: is not one of the options.",
                     approvals.items[i].val)
        ELSE IF HasDuplicates(approvals.items)
        THEN Invalid("Duplicate found: approvals contain repeated options.", NULL)
        ELSE Valid

\* Lines 49-121.
validateVote(b, opts) ==
    IF ~JsTruthy(b) \/ ~TypeofObject(b)
    THEN Invalid("Ballot is not a valid object.", NULL)
    ELSE IF ~JsTruthy(b.rankings) \/ ~IsArray(b.rankings)
    THEN Invalid("Ballot rankings are null or not an array.", NULL)
    ELSE IF ~JsTruthy(opts) \/ ~IsArray(opts)
    THEN Invalid("Options list is null or not an array.", NULL)
    ELSE LET optionSet == Range(opts.items)
             ranked == RankingsVerdict(b.rankings.items, optionSet)
         IN  IF ~ranked.valid THEN ranked
             ELSE ApprovalsVerdict(b.approvals, optionSet)

(***************************************************************************)
(* Calls of validateVote on every vote and option list of the sizes        *)
(* explored.                                                               *)
(***************************************************************************)
MaxEntries == 2

\* Two options, and something that is not a string.
Entries == {Str("A"), Str("B"), NonStr("1")}

Arrays == UNION {[1..n -> Entries] : n \in 0..MaxEntries}

Fields == {Undefined, Null, Falsy, Other} \cup {Array(a) : a \in Arrays}

Votes ==
    {Plain(k) : k \in {"undefined", "null", "falsy", "other", "array"}}
        \cup {Object(r, a) : r, a \in Fields}

\* Absent or malformed option lists, and lists that know none, one or both
\* of the options.
RawOptionLists ==
    {Undefined, Null, Other,
     Array(<<>>), Array(<<Str("A")>>), Array(<<Str("A"), Str("B")>>)}

TallyIdle ==
    /\ ballots = Idle
    /\ options = Idle
    /\ config = Idle
    /\ totalVotes = 0
    /\ threshold = 0
    /\ initialApprovalCounts = Idle
    /\ initialApprovalPercentages = Idle
    /\ activeOptions = Idle
    /\ currentBallotChoices = Idle
    /\ round = 0
    /\ roundLogs = <<>>
    /\ pc = Idle
    /\ result = NoResult

InitValidate ==
    /\ vote \in Votes
    /\ rawOptions \in RawOptionLists
    /\ validation = Idle
    /\ fpc = "validateVote"
    /\ rawVotes = Idle
    /\ voteIndex = 0
    /\ cleanBallots = Idle
    /\ warnings = Idle
    /\ previousBallots = Idle
    /\ TallyIdle

\* Lines 49-121: the call returns its verdict.
ValidateVote ==
    /\ fpc = "validateVote"
    /\ validation' = validateVote(vote, rawOptions)
    /\ fpc' = "validated"
    /\ UNCHANGED <<tallyVars, vote, rawVotes, rawOptions, voteIndex,
                   cleanBallots, warnings, previousBallots>>

NextValidate == ValidateVote

SpecValidate == InitValidate /\ [][NextValidate]_vars

(***************************************************************************)
(* formatBallots, statement by statement, and a second call of it on what  *)
(* the first one returned.                                                 *)
(***************************************************************************)
MaxRawVotes == 2

\* The records of the usage example of the README, and one vote for each
\* way a record can be skipped, dropped or kept.
FormatVotes ==
    {Object(Array(<<Str("A"), Str("B")>>), Array(<<Str("A")>>)),
     Object(Array(<<Str("B"), Str("A"), Str("B")>>), Undefined),
     Object(Array(<<Str("C")>>), Undefined),
     Object(Array(<<Str("D")>>), Undefined),
     Plain("null"), Plain("other"), Plain("array"),
     Object(Undefined, Array(<<Str("A")>>)),
     Object(Other, Undefined),
     Object(Array(<<>>), Null),
     Object(Array(<<NonStr("1")>>), Array(<<>>)),
     Object(Array(<<Str("A")>>), Falsy),
     Object(Array(<<Str("A")>>), Other),
     Object(Array(<<Str("A")>>), Array(<<Str("B"), Str("B")>>))}

RawVoteLists ==
    {Undefined, Null, Other}
        \cup {Array(l) : l \in UNION {[1..n -> FormatVotes] : n \in 0..MaxRawVotes}}

FormatOptionLists ==
    {Null, Array(<<Str("A")>>), Array(<<Str("A"), Str("B"), Str("C")>>)}

\* Line 137: the record is passed over without a verdict.
Skipped(v) == ~JsTruthy(v) \/ ~TypeofObject(v) \/ ~JsTruthy(v.rankings)

\* Mutant: the rankings array itself is pushed, as in the older version.
CleanBallotBare(v) == Plain("array")

\* Line 144: { rankings: vote.rankings, approvals: vote.approvals || [] }.
CleanBallot(v) ==
    Object(v.rankings, IF JsTruthy(v.approvals) THEN v.approvals ELSE Array(<<>>))

InitFormat ==
    /\ rawVotes \in RawVoteLists
    /\ rawOptions \in FormatOptionLists
    /\ vote = Idle
    /\ validation = Idle
    /\ voteIndex = 0
    /\ cleanBallots = <<>>
    /\ warnings = <<>>
    /\ previousBallots = <<>>
    /\ fpc = "formatBallots"
    /\ TallyIdle

\* Lines 131-134: rawVotes is missing or not an array.
ReturnEmpty ==
    /\ fpc = "formatBallots"
    /\ ~JsTruthy(rawVotes) \/ ~IsArray(rawVotes)
    /\ cleanBallots' = <<>>
    /\ fpc' = "returned"
    /\ UNCHANGED <<tallyVars, vote, rawVotes, rawOptions, validation, voteIndex,
                   warnings, previousBallots>>

\* Lines 131-136: the loop over rawVotes begins.
StartLoop ==
    /\ fpc = "formatBallots"
    /\ JsTruthy(rawVotes) /\ IsArray(rawVotes)
    /\ cleanBallots' = <<>>
    /\ voteIndex' = 1
    /\ fpc' = "loop"
    /\ UNCHANGED <<tallyVars, vote, rawVotes, rawOptions, validation, warnings,
                   previousBallots>>

AtVote == fpc = "loop" /\ voteIndex <= Len(rawVotes.items)

\* Lines 137-139: continue.
SkipVote ==
    /\ AtVote
    /\ Skipped(rawVotes.items[voteIndex])
    /\ voteIndex' = voteIndex + 1
    /\ UNCHANGED <<tallyVars, vote, rawVotes, rawOptions, validation,
                   cleanBallots, warnings, previousBallots, fpc>>

\* Lines 141-144: the vote is valid and pushed.
KeepVote ==
    /\ AtVote
    /\ LET v == rawVotes.items[voteIndex]
           verdict == validateVote(v, rawOptions)
       IN  /\ ~Skipped(v)
           /\ verdict.valid
           /\ validation' = verdict
           /\ cleanBallots' = Append(cleanBallots, CleanBallot(v))
    /\ voteIndex' = voteIndex + 1
    /\ UNCHANGED <<tallyVars, vote, rawVotes, rawOptions, warnings,
                   previousBallots, fpc>>

\* Lines 141-147: the vote is invalid; console.warn prints the error.
DropVote ==
    /\ AtVote
    /\ LET v == rawVotes.items[voteIndex]
           verdict == validateVote(v, rawOptions)
       IN  /\ ~Skipped(v)
           /\ ~verdict.valid
           /\ validation' = verdict
           /\ warnings' = Append(warnings, verdict.error)
    /\ voteIndex' = voteIndex + 1
    /\ UNCHANGED <<tallyVars, vote, rawVotes, rawOptions, cleanBallots,
                   previousBallots, fpc>>

\* Line 150.
ReturnBallots ==
    /\ fpc = "loop"
    /\ voteIndex > Len(rawVotes.items)
    /\ fpc' = "returned"
    /\ UNCHANGED <<tallyVars, vote, rawVotes, rawOptions, validation, voteIndex,
                   cleanBallots, warnings, previousBallots>>

\* formatBallots(formatBallots(rawVotes, options), options): the array
\* returned is the rawVotes of a second call, with the same options.
FormatAgain ==
    /\ fpc = "returned"
    /\ previousBallots = <<>>
    /\ previousBallots' = <<cleanBallots>>
    /\ rawVotes' = Array(cleanBallots)
    /\ cleanBallots' = <<>>
    /\ warnings' = <<>>
    /\ voteIndex' = 0
    /\ fpc' = "formatBallots"
    /\ UNCHANGED <<tallyVars, vote, rawOptions, validation>>

NextFormat ==
    \/ ReturnEmpty
    \/ StartLoop
    \/ SkipVote
    \/ KeepVote
    \/ DropVote
    \/ ReturnBallots
    \/ FormatAgain

SpecFormat == InitFormat /\ [][NextFormat]_vars

(***************************************************************************)
(* Properties.                                                             *)
(***************************************************************************)
Done == pc = "done"

\* result.rounds is roundLogs.
NumRounds == Len(roundLogs)

LastRound == roundLogs[NumRounds]

Max(a, b) == IF a >= b THEN a ELSE b

RECURSIVE SumTally(_)
SumTally(t) ==
    IF DOMAIN t = {} THEN 0
    ELSE LET o == CHOOSE x \in DOMAIN t : TRUE
         IN  t[o] + SumTally([x \in DOMAIN t \ {o} |-> t[x]])

\* The options of a tally with the least count.
LeastVoted(t) == {o \in DOMAIN t : \A p \in DOMAIN t : t[o] <= t[p]}

\* Every truthy current choice is a member of activeOptions, so line 231
\* only ever increments a key that line 226 has set.
ChoicesActive ==
    \A i \in 1..Len(currentBallotChoices) :
        Truthy(currentBallotChoices[i]) =>
            currentBallotChoices[i] \in Range(activeOptions)

\* C1: a non-null winner comes with a last round "Winner found" whose tally
\* gives the winner at least floor(number of ballots / 2) + 1 votes.
C1_WinnerHasMajority ==
    (Done /\ result.winner # NULL) =>
        /\ NumRounds >= 1
        /\ LastRound.status = "Winner found"
        /\ result.winner \in DOMAIN LastRound.tally
        /\ LastRound.tally[result.winner] >= (Len(ballots) \div 2) + 1
        /\ result.totalVotes = Len(ballots)
        /\ result.threshold = (Len(ballots) \div 2) + 1

\* A winner found in a later round, after a transfer.
C1_Witness == Done /\ result.winner # NULL /\ NumRounds >= 2

\* C2: with maxRounds >= number of options the tally ends "Winner found" or
\* "Unbreakable tie" within max(1, number of options) rounds, without the
\* round-limit error.
C2_BoundedRounds ==
    config.maxRounds >= Len(options) =>
        /\ Len(roundLogs) <= Max(1, Len(options))
        /\ ~Done => (Len(roundLogs) = round - 1 /\ round <= config.maxRounds + 1)
        /\ Done =>
             /\ ~result.error.present
             /\ NumRounds >= 1
             /\ NumRounds <= Max(1, Len(options))
             /\ LastRound.status \in {"Winner found", "Unbreakable tie"}

\* A tally that needs as many rounds as there are options.
C2_Witness ==
    /\ Done
    /\ config.maxRounds >= Len(options)
    /\ Len(options) = 3
    /\ NumRounds = 3

\* C3: an "Elimination" round removes at least one option, the active set
\* never gains an option, an eliminated option is no key of a later tally,
\* and there are never more round records than maxRounds.
C3_ActiveSetShrinks ==
    /\ Len(roundLogs) <= config.maxRounds
    /\ Range(activeOptions) \subseteq Range(options)
    /\ \A r \in 1..Len(roundLogs) :
          /\ DOMAIN roundLogs[r].tally \subseteq Range(options)
          /\ roundLogs[r].status = "Elimination" =>
                /\ Len(roundLogs[r].eliminated) >= 1
                /\ Range(roundLogs[r].eliminated) \subseteq DOMAIN roundLogs[r].tally
                /\ Range(roundLogs[r].eliminated) # DOMAIN roundLogs[r].tally
          /\ r < Len(roundLogs) =>
                /\ roundLogs[r].status = "Elimination"
                /\ DOMAIN roundLogs[r + 1].tally =
                      DOMAIN roundLogs[r].tally \ Range(roundLogs[r].eliminated)
          /\ \A q \in 1..(r - 1) :
                Range(roundLogs[q].eliminated) \cap DOMAIN roundLogs[r].tally = {}
    /\ (pc = "loop" /\ Len(roundLogs) >= 1) =>
          LET last == roundLogs[Len(roundLogs)]
          IN  Range(activeOptions) = DOMAIN last.tally \ Range(last.eliminated)

\* Two options eliminated together, and a later round tallied without them.
C3_Witness ==
    /\ Len(roundLogs) >= 2
    /\ Len(roundLogs[1].eliminated) >= 2

\* C4 as stated: maxRounds below the number of options minus one forces the
\* error-terminated path.
C4_LowLimitForcesError ==
    (Done /\ config.maxRounds < Len(options) - 1) =>
        /\ result.winner = NULL
        /\ result.error.present
        /\ result.error.maxRounds = config.maxRounds

\* C4 amended: the tally takes the error-terminated path exactly when every
\* one of its maxRounds rounds ended "Elimination"; it then returns winner
\* null and an error naming the configured limit, and maxRounds is below the
\* number of options.
C4_ErrorPath ==
    Done =>
        /\ result.error.present <=>
              /\ NumRounds = config.maxRounds
              /\ \A r \in 1..NumRounds : roundLogs[r].status = "Elimination"
        /\ result.error.present =>
              /\ result.winner = NULL
              /\ result.error.maxRounds = config.maxRounds
              /\ config.maxRounds < Len(options)

\* The error-terminated path with maxRounds below the number of options
\* minus one.
C4_Witness ==
    /\ Done
    /\ result.error.present
    /\ config.maxRounds < Len(options) - 1

\* C5: the result has rounds numbered 1..k, k <= maxRounds, all but the last
\* "Elimination", and ends (a) "Winner found" with a winner and no error,
\* (b) "Unbreakable tie" with no winner and no error, or (c) "Elimination"
\* with k = maxRounds, no winner and the error naming maxRounds.
C5_ResultShapes ==
    Done =>
        /\ NumRounds >= 1
        /\ NumRounds <= config.maxRounds
        /\ \A r \in 1..NumRounds : roundLogs[r].round = r
        /\ \A r \in 1..(NumRounds - 1) : roundLogs[r].status = "Elimination"
        /\ \/ /\ LastRound.status = "Winner found"
              /\ result.winner # NULL
              /\ ~result.error.present
           \/ /\ LastRound.status = "Unbreakable tie"
              /\ result.winner = NULL
              /\ ~result.error.present
           \/ /\ LastRound.status = "Elimination"
              /\ NumRounds = config.maxRounds
              /\ result.winner = NULL
              /\ result.error.present
              /\ result.error.maxRounds = config.maxRounds

\* Shape (c) after two elimination rounds.
C5_Witness ==
    /\ Done
    /\ result.error.present
    /\ NumRounds = 2
    /\ LastRound.status = "Elimination"

\* C6: the counts of a round's tally add up to the number of ballots whose
\* current choice is not exhausted (in round 1: the ballots that rank at
\* least one option); totalVotes is the number of ballots and threshold is
\* floor(totalVotes / 2) + 1.
C6_TallySums ==
    /\ totalVotes = Len(ballots)
    /\ threshold = (Len(ballots) \div 2) + 1
    /\ Len(roundLogs) >= 1 =>
          SumTally(roundLogs[1].tally) =
              Cardinality({i \in 1..Len(ballots) : ballots[i].rankings # <<>>})
    /\ (InRound /\ round >= 2) =>
          SumTally(RoundTally(activeOptions, currentBallotChoices)) =
              Cardinality({i \in 1..Len(ballots) : currentBallotChoices[i] # NULL})

\* Approval percentages a and b of one election (same denominator) differ.
PctDiffer(a, b) == a.k = "num" /\ b.k = "num" /\ a.n * b.d # b.n * a.d

PctAtMost(a, b) == a.k = "num" /\ b.k = "num" /\ a.n * b.d <= b.n * a.d

\* C7: under "approval", when several options share the least tally and
\* their approval percentages are not all the same, exactly the tied options
\* with the lowest percentage are eliminated; when they are all the same,
\* the whole tied group is.
C7_ApprovalNarrowing ==
    config.tieBreaking = "approval" =>
        \A r \in 1..Len(roundLogs) :
            LET log == roundLogs[r]
                tied == LeastVoted(log.tally)
                pct == log.approvalPercentages
            IN  (log.status # "Winner found" /\ Cardinality(tied) > 1) =>
                  /\ Len(log.eliminated) = Cardinality(Range(log.eliminated))
                  /\ IF \E a, b \in tied : PctDiffer(pct[a], pct[b])
                     THEN Range(log.eliminated) =
                            {o \in tied : \A p \in tied : PctAtMost(pct[o], pct[p])}
                     ELSE Range(log.eliminated) = tied

\* A three-way tie with pairwise distinct approval percentages, narrowed to
\* one option.
C7_Witness ==
    /\ config.tieBreaking = "approval"
    /\ \E r \in 1..Len(roundLogs) :
          LET log == roundLogs[r]
              tied == LeastVoted(log.tally)
          IN  /\ log.status = "Elimination"
              /\ Cardinality(tied) = 3
              /\ \A a, b \in tied :
                    a # b => PctDiffer(log.approvalPercentages[a],
                                       log.approvalPercentages[b])
              /\ Len(log.eliminated) = 1

\* C8: under a tieBreaking other than "approval" an "Elimination" round
\* eliminates exactly the active options with the least tally; under every
\* config the eliminated options have the least tally.
C8_EliminateLeastVoted ==
    \A r \in 1..Len(roundLogs) :
        LET log == roundLogs[r]
        IN  log.status = "Elimination" =>
              /\ Range(log.eliminated) \subseteq LeastVoted(log.tally)
              /\ \A o \in DOMAIN log.tally \ Range(log.eliminated) :
                    \A e \in Range(log.eliminated) : log.tally[o] >= log.tally[e]
              /\ config.tieBreaking # "approval" =>
                    /\ Range(log.eliminated) = LeastVoted(log.tally)
                    /\ Len(log.eliminated) = Cardinality(LeastVoted(log.tally))

\* Under "eliminate_all", two tied options with different approval
\* percentages eliminated together.
C8_Witness ==
    /\ config.tieBreaking = "eliminate_all"
    /\ \E r \in 1..Len(roundLogs) :
          LET log == roundLogs[r]
          IN  /\ log.status = "Elimination"
              /\ Len(log.eliminated) = 2
              /\ PctDiffer(log.approvalPercentages[log.eliminated[1]],
                           log.approvalPercentages[log.eliminated[2]])

IsZero(x) == x.k = "num" /\ x.n = 0

\* C9: with an empty ballot list every approval percentage is 0, in the
\* result of calculateApproval and in every round record.
C9_ZeroPercentWhenEmpty ==
    (Done /\ Len(ballots) = 0) =>
        /\ \A o \in Range(options) : IsZero(initialApprovalPercentages[o])
        /\ \A r \in 1..Len(roundLogs) :
              \A o \in Range(options) : IsZero(roundLogs[r].approvalPercentages[o])

\* C10: no ballots and two or more options: totalVotes 0, threshold 1, one
\* round with an all-zero tally, "Unbreakable tie", no winner.
C10_EmptyElection ==
    (Done /\ Len(ballots) = 0 /\ Len(options) >= 2) =>
        /\ result.totalVotes = 0
        /\ result.threshold = 1
        /\ NumRounds = 1
        /\ DOMAIN LastRound.tally = Range(options)
        /\ \A o \in Range(options) : LastRound.tally[o] = 0
        /\ LastRound.status = "Unbreakable tie"
        /\ result.winner = NULL
        /\ ~result.error.present

\* The empty election under "approval", three options.
C10_Witness ==
    /\ Done
    /\ Len(ballots) = 0
    /\ Len(options) = 3
    /\ config.tieBreaking = "approval"
    /\ LastRound.status = "Unbreakable tie"

\* C11: options [A,B,C], the five ballots of the worked example and
\* "eliminate_all": threshold 3; round 1 tallies A 2, B 2, C 1, eliminates C
\* and transfers one ballot from C to B; round 2 tallies A 2, B 3 and finds
\* the winner B; two rounds in all.
C11_WorkedExample ==
    (/\ Done
     /\ options = ScenarioOptions
     /\ ballots = ScenarioBallots
     /\ config.tieBreaking = "eliminate_all"
     /\ config.maxRounds >= 2) =>
        /\ result.threshold = 3
        /\ result.totalVotes = 5
        /\ NumRounds = 2
        /\ roundLogs[1].round = 1
        /\ roundLogs[1].tally = [o \in {"A", "B", "C"} |->
                                    IF o = "C" THEN 1 ELSE 2]
        /\ roundLogs[1].status = "Elimination"
        /\ roundLogs[1].eliminated = <<"C">>
        /\ roundLogs[1].transfers = [e \in {"C"} |-> [t \in {"B"} |-> 1]]
        /\ roundLogs[2].round = 2
        /\ roundLogs[2].tally = [o \in {"A", "B"} |-> IF o = "A" THEN 2 ELSE 3]
        /\ roundLogs[2].status = "Winner found"
        /\ result.winner = "B"
        /\ ~result.error.present

\* The worked example tallied to its end.
C11_Witness ==
    /\ Done
    /\ ballots = ScenarioBallots
    /\ config.tieBreaking = "eliminate_all"
    /\ config.maxRounds >= 2
    /\ result.winner = "B"

\* C16: every round record carries, for every option of the election
\* (eliminated or not), the number of ballots whose approvals contain it and
\* that number as a percentage of all ballots; the figures held by the
\* tally stay those of the ballots throughout.
C16_ApprovalFixed ==
    LET counts == [o \in Range(options) |->
                      Cardinality({i \in 1..Len(ballots) :
                                      \E j \in 1..Len(ballots[i].approvals) :
                                          ballots[i].approvals[j] = o})]
        pct == [o \in Range(options) |-> JsPercent(counts[o], Len(ballots))]
    IN  /\ initialApprovalCounts = counts
        /\ initialApprovalPercentages = pct
        /\ \A k \in 1..NumRounds :
              /\ roundLogs[k].approvalRatings = counts
              /\ roundLogs[k].approvalPercentages = pct

\* A second round whose record still rates an approved option that the
\* first round eliminated.
C16_Witness ==
    /\ NumRounds >= 2
    /\ \E e \in Range(roundLogs[1].eliminated) :
          /\ e \notin DOMAIN roundLogs[2].tally
          /\ roundLogs[2].approvalRatings[e] > 0

\* C17: at the start of every round each ballot's current choice is the
\* first entry of its rankings that is in the active set, or null.
C17_ChoiceIsFirstActive ==
    InRound =>
        \A i \in 1..Len(ballots) :
            currentBallotChoices[i] =
                getActiveChoice(ballots[i].rankings, Range(activeOptions))

\* The votes that the transfers of a round record move to option x.
TransfersInto(log, x) ==
    SumTally([e \in DOMAIN log.transfers |->
                 IF x \in DOMAIN log.transfers[e] THEN log.transfers[e][x] ELSE 0])

AtThreshold(t) == {o \in DOMAIN t : t[o] >= threshold}

\* C19: in every round at most one active option has a tally at or above
\* the threshold.
C19_OneMajority ==
    /\ \A k \in 1..NumRounds : Cardinality(AtThreshold(roundLogs[k].tally)) <= 1
    /\ InRound =>
          Cardinality(AtThreshold(RoundTally(activeOptions, currentBallotChoices))) <= 1

\* A winner that is not the first option in iteration order.
C19_Witness ==
    /\ Done
    /\ result.winner # NULL
    /\ Len(activeOptions) >= 2
    /\ result.winner # activeOptions[1]
    /\ AtThreshold(LastRound.tally) = {result.winner}

\* C20: a round with status "Unbreakable tie" is the last one; all its
\* active options have the same tally, below the threshold, and under
\* "approval" no two of them differ in approval percentage; it lists the
\* whole active set as eliminated and the winner is null.
C20_UnbreakableTie ==
    \A k \in 1..NumRounds :
        LET log == roundLogs[k]
        IN  log.status = "Unbreakable tie" =>
                /\ k = NumRounds
                /\ Done
                /\ result.winner = NULL
                /\ ~result.error.present
                /\ DOMAIN log.tally = Range(activeOptions)
                /\ \A o, q \in DOMAIN log.tally : log.tally[o] = log.tally[q]
                /\ \A o \in DOMAIN log.tally : log.tally[o] < threshold
                /\ config.tieBreaking = "approval" =>
                      \A o, q \in DOMAIN log.tally :
                          ~PctDiffer(log.approvalPercentages[o],
                                     log.approvalPercentages[q])
                /\ Range(log.eliminated) = DOMAIN log.tally
                /\ Len(log.eliminated) = Cardinality(DOMAIN log.tally)

\* The tie of a single remaining option that has votes, but too few.
C20_Witness ==
    /\ Done
    /\ NumRounds >= 2
    /\ LastRound.status = "Unbreakable tie"
    /\ Len(activeOptions) = 1
    /\ LastRound.tally[activeOptions[1]] > 0

\* The options of a well-formed option list.
KnownOptions == Range(rawOptions.items)

\* An array of strings that are all options, without repeats.
CleanList(f) ==
    /\ f.kind = "array"
    /\ \A i \in 1..Len(f.items) : f.items[i].str /\ f.items[i] \in KnownOptions
    /\ \A i, j \in 1..Len(f.items) : i # j => f.items[i] # f.items[j]

\* The field is there: neither undefined nor null.
Present(f) == f.kind \notin {"undefined", "null"}

\* The ballots that ought to be valid.
WellFormedBallot(b) ==
    /\ b.kind = "object"
    /\ CleanList(b.rankings)
    /\ Present(b.approvals) => CleanList(b.approvals)

\* C12: for a well-formed option list, validateVote returns valid = true with
\* error null exactly when the rankings are an array of distinct options
\* and the approvals, if present, are an array of distinct options.
C12_ValidIffWellFormed ==
    (fpc = "validated" /\ rawOptions.kind = "array") =>
        /\ validation.valid <=> WellFormedBallot(vote)
        /\ validation.valid <=> validation.error = NullError

\* Entry i of an array field breaks the entry rule: it is not a string, or
\* the option list is well-formed and does not hold it.
Offends(f, i) ==
    \/ ~f.items[i].str
    \/ rawOptions.kind = "array" /\ f.items[i] \notin KnownOptions

Offenders(f) == {i \in 1..Len(f.items) : f.kind = "array" /\ Offends(f, i)}

Repeats(f) ==
    f.kind = "array" /\ \E i, j \in 1..Len(f.items) : i # j /\ f.items[i] = f.items[j]

\* The validation rules that the vote breaks, numbered in the order of the
\* checks: 1 malformed ballot, 2 malformed option list, 3 offending ranking
\* entry, 4 duplicate rankings, 5 approvals not an array, 6 offending
\* approval entry, 7 duplicate approvals.
BrokenRules ==
    {n \in 1..7 :
        \/ n = 1 /\ (vote.kind # "object" \/ vote.rankings.kind # "array")
        \/ n = 2 /\ rawOptions.kind # "array"
        \/ n = 3 /\ Offenders(vote.rankings) # {}
        \/ n = 4 /\ Repeats(vote.rankings)
        \/ n = 5 /\ Present(vote.approvals) /\ vote.approvals.kind # "array"
        \/ n = 6 /\ Offenders(vote.approvals) # {}
        \/ n = 7 /\ Repeats(vote.approvals)}

Least(S) == CHOOSE n \in S : \A m \in S : n <= m

\* The vote breaks several rules, or one entry rule in several places.
SeveralViolations ==
    \/ Cardinality(BrokenRules) >= 2
    \/ Cardinality(Offenders(vote.rankings)) >= 2
    \/ Cardinality(Offenders(vote.approvals)) >= 2

\* The message, and the choice it quotes, for a broken rule.
ErrorOfRule(n) ==
    LET r == vote.rankings.items[Least(Offenders(vote.rankings))]
        a == vote.approvals.items[Least(Offenders(vote.approvals))]
    IN  CASE n = 1 /\ vote.kind \notin {"object", "array"} ->
                 [message |-> "Ballot is not a valid object.", choice |-> NULL]
          [] n = 1 /\ vote.kind \in {"object", "array"} ->
                 [message |-> "Ballot rankings are null or not an array.",
                  choice |-> NULL]
          [] n = 2 -> [message |-> "Options list is null or not an array.",
                       choice |-> NULL]
          [] n = 3 /\ ~r.str ->
                 [message |-> "Invalid choice: rankings contain a non-string value.",
                  choice |-> NULL]
          [] n = 3 /\ r.str ->
                 [message |-> "Invalid choice: is not one of the options.",
                  choice |-> r.val]
          [] n = 4 -> [message |-> "Duplicate found: rankings contain repeated options.",
                       choice |-> NULL]
          [] n = 5 -> [message |-> "Approvals must be an array.", choice |-> NULL]
          [] n = 6 /\ ~a.str ->
                 [message |-> "Invalid choice: approvals contain a non-string value.",
                  choice |-> NULL]
          [] n = 6 /\ a.str ->
                 [message |-> "Invalid approved choice: is not one of the options.",
                  choice |-> a.val]
          [] n = 7 -> [message |-> "Duplicate found: approvals contain repeated options.",
                       choice |-> NULL]

\* C13: a vote that breaks several validation rules gets exactly the error
\* of the first broken rule in the order of the checks, and within a list
\* that of its first offending entry.
C13_FirstViolationReported ==
    (fpc = "validated" /\ SeveralViolations) =>
        /\ ~validation.valid
        /\ validation.error = ErrorOfRule(Least(BrokenRules))

\* An unknown ranking that is also repeated, with an unknown approval: the
\* verdict names the unknown ranking.
C13_Witness ==
    /\ fpc = "validated"
    /\ {3, 4, 6} \subseteq BrokenRules
    /\ BrokenRules \cap {1, 2} = {}
    /\ validation.error.choice = vote.rankings.items[1].val
    /\ vote.rankings.items[1].str

\* The clean ballot of a raw record: its rankings, and its approvals or, if
\* it has none, the empty list.
Emitted(v) ==
    Object(v.rankings, IF Present(v.approvals) THEN v.approvals ELSE Array(<<>>))

\* The records of a list that are well-formed ballots, in order, as clean
\* ballots.
RECURSIVE EmittedFrom(_, _)
EmittedFrom(votes, i) ==
    IF i > Len(votes) THEN <<>>
    ELSE IF rawOptions.kind = "array" /\ WellFormedBallot(votes[i])
    THEN <<Emitted(votes[i])>> \o EmittedFrom(votes, i + 1)
    ELSE EmittedFrom(votes, i + 1)

\* C14: formatBallots returns, in input order, the clean ballots of exactly
\* the records that are valid ballots, and the empty list when rawVotes is
\* not an array.
C14_KeepsValidInOrder ==
    fpc = "returned" =>
        cleanBallots = IF rawVotes.kind = "array"
                       THEN EmittedFrom(rawVotes.items, 1)
                       ELSE <<>>

\* C15: formatting the result of formatBallots again, with the same options,
\* returns the same ballots in the same order.
C15_Idempotent ==
    (fpc = "returned" /\ previousBallots # <<>>) =>
        cleanBallots = previousBallots[1]

\* A second call that returned two ballots, one with approvals of its own
\* and one with the default.
C15_Witness ==
    /\ fpc = "returned"
    /\ previousBallots # <<>>
    /\ Len(cleanBallots) = 2
    /\ cleanBallots[1].approvals # Array(<<>>)
    /\ cleanBallots[2].approvals = Array(<<>>)

====
